---- MODULE Spec2Model ----
(***************************************************************************)
(* Model of src/src/extension.js (Simple System Monitor, a GNOME Shell     *)
(* extension): the module-level estimator state, the three /proc readers,  *)
(* and the lifecycle of SSMExtension (enable, disable, _setupTimer,        *)
(* _updateStyles, _refresh) driven by GLib timers and settings signals.    *)
(***************************************************************************)
EXTENDS Integers, Sequences, FiniteSets, TLC

(***************************************************************************)
(* Bounds of the model.                                                    *)
(***************************************************************************)
\* The amounts formatted are m * 10^e for e in 0..MaxExp.
MaxExp == 4
\* REFRESH_INTERVAL ranges over 1..MaxInterval seconds.
MaxInterval == 2
\* Seconds that may pass since the previous network sample was stored.
MaxElapsed == 2

(***************************************************************************)
(* JavaScript numbers.  A number is a record [n, d]: the rational n/d in   *)
(* lowest terms with d > 0, or a non-finite value with d = 0: NaN (n = 0), *)
(* Infinity (n = 1), -Infinity (n = -1).                                   *)
(***************************************************************************)
Abs(x) == IF x < 0 THEN -x ELSE x

Sgn(x) == IF x > 0 THEN 1 ELSE IF x < 0 THEN -1 ELSE 0

RECURSIVE GCD(_, _)
GCD(a, b) == IF b = 0 THEN a ELSE GCD(b, a % b)

Norm(n, d) ==
    IF d = 0 THEN [n |-> Sgn(n), d |-> 0]
    ELSE LET g == GCD(Abs(n), Abs(d))
         IN  [n |-> (Sgn(d) * n) \div g, d |-> Abs(d) \div g]

Num(i) == [n |-> i, d |-> 1]

NaN == [n |-> 0, d |-> 0]

IsNaN(x) == x.d = 0 /\ x.n = 0

IsFinite(x) == x.d # 0

\* a + b
JAdd(a, b) ==
    IF IsFinite(a) /\ IsFinite(b) THEN Norm(a.n * b.d + b.n * a.d, a.d * b.d)
    ELSE IF IsNaN(a) \/ IsNaN(b) THEN NaN
    ELSE IF ~IsFinite(a) /\ ~IsFinite(b) THEN (IF a.n = b.n THEN a ELSE NaN)
    ELSE IF ~IsFinite(a) THEN a ELSE b

\* a - b
JSub(a, b) == JAdd(a, [n |-> -b.n, d |-> b.d])

\* a / b
JDiv(a, b) ==
    IF IsNaN(a) \/ IsNaN(b) THEN NaN
    ELSE IF IsFinite(a) /\ IsFinite(b)
         THEN (IF b.n = 0 THEN Norm(a.n, 0) ELSE Norm(a.n * b.d, a.d * b.n))
    ELSE IF IsFinite(a) THEN Num(0)
    ELSE IF IsFinite(b) THEN [n |-> a.n * (IF b.n < 0 THEN -1 ELSE 1), d |-> 0]
    ELSE NaN

\* a !== b
JStrictNe(a, b) == IsNaN(a) \/ IsNaN(b) \/ a # b

\* a >= b
JGe(a, b) ==
    IF IsNaN(a) \/ IsNaN(b) THEN FALSE
    ELSE IF IsFinite(a) /\ IsFinite(b) THEN a.n * b.d >= b.n * a.d
    ELSE IF ~IsFinite(a) /\ ~IsFinite(b) THEN a.n >= b.n
    ELSE IF ~IsFinite(a) THEN a.n > 0 ELSE b.n < 0

\* a > b
JGt(a, b) ==
    IF IsNaN(a) \/ IsNaN(b) THEN FALSE
    ELSE IF IsFinite(a) /\ IsFinite(b) THEN a.n * b.d > b.n * a.d
    ELSE IF ~IsFinite(a) /\ ~IsFinite(b) THEN a.n > b.n
    ELSE IF ~IsFinite(a) THEN a.n > 0 ELSE b.n < 0

(***************************************************************************)
(* Tokens.  A line of a /proc table is the sequence `fields` that          *)
(* line.trim().split(/\W+/) yields; a token is a sequence of characters.   *)
(* The empty token <<>> also stands for `undefined` (a missing field):     *)
(* Number.parseInt gives NaN for both.                                     *)
(***************************************************************************)
DigitChars == <<"0", "1", "2", "3", "4", "5", "6", "7", "8", "9">>

IsDigit(c) == \E i \in 1..10 : DigitChars[i] = c

DigitVal(c) == (CHOOSE i \in 1..10 : DigitChars[i] = c) - 1

RECURSIVE ParseDigits(_, _, _)
ParseDigits(s, i, acc) ==
    IF i > Len(s) \/ ~IsDigit(s[i]) THEN acc
    ELSE ParseDigits(s, i + 1, 10 * acc + DigitVal(s[i]))

\* Number.parseInt(s) on a token: the value of its longest prefix of digits.
parseInt(s) ==
    IF s = <<>> \/ ~IsDigit(s[1]) THEN NaN ELSE Num(ParseDigits(s, 1, 0))

\* fields[i], JavaScript indexing from 0; out of range is undefined.
Field(fields, i) == IF i + 1 <= Len(fields) THEN fields[i + 1] ELSE <<>>

\* The decimal rendering of a natural number, as a token.
RECURSIVE Digits(_)
Digits(k) ==
    IF k < 10 THEN <<DigitChars[k + 1]>>
    ELSE Digits(k \div 10) \o <<DigitChars[(k % 10) + 1]>>

\* The characters \w matches.
WordChars ==
    {"a", "b", "c", "d", "e", "f", "g", "h", "i", "j", "k", "l", "m", "n", "o", "p", "q",
     "r", "s", "t", "u", "v", "w", "x", "y", "z", "A", "B", "C", "D", "E", "F", "G", "H",
     "I", "J", "K", "L", "M", "N", "O", "P", "Q", "R", "S", "T", "U", "V", "W", "X", "Y",
     "Z", "0", "1", "2", "3", "4", "5", "6", "7", "8", "9", "_"}

\* line.trim(): the line without its leading and trailing blanks.
RECURSIVE trim(_)
trim(line) ==
    IF line = <<>> THEN line
    ELSE IF Head(line) \in {" ", "\t"} THEN trim(Tail(line))
    ELSE IF line[Len(line)] \in {" ", "\t"} THEN trim(SubSeq(line, 1, Len(line) - 1))
    ELSE line

\* text.split(/\W+/) from character i on: cur is the token being read, acc
\* the tokens read, inSep whether the previous character was a separator.
RECURSIVE SplitFrom(_, _, _, _, _)
SplitFrom(text, i, cur, acc, inSep) ==
    IF i > Len(text) THEN Append(acc, cur)
    ELSE IF text[i] \in WordChars THEN SplitFrom(text, i + 1, Append(cur, text[i]), acc, FALSE)
    ELSE IF inSep THEN SplitFrom(text, i + 1, cur, acc, TRUE)
    ELSE SplitFrom(text, i + 1, <<>>, Append(acc, cur), TRUE)

\* line.trim().split(/\W+/): the fields of a line of text.
Fields(line) == SplitFrom(trim(line), 1, <<>>, <<>>, FALSE)

(***************************************************************************)
(* Words that occur in the tables and in the code, as tokens.              *)
(***************************************************************************)
W_lo == <<"l", "o">>

W_eth0 == <<"e", "t", "h", "0">>

W_br0 == <<"b", "r", "0">>

W_bridge0 == <<"b", "r", "i", "d", "g", "e", "0">>

W_cpu == <<"c", "p", "u">>

W_cpu0 == <<"c", "p", "u", "0">>

W_MemTotal == <<"M", "e", "m", "T", "o", "t", "a", "l">>

W_MemAvailable == <<"M", "e", "m", "A", "v", "a", "i", "l", "a", "b", "l", "e">>

W_SwapTotal == <<"S", "w", "a", "p", "T", "o", "t", "a", "l">>

W_SwapFree == <<"S", "w", "a", "p", "F", "r", "e", "e">>

W_kB == <<"k", "B">>

\* The alternatives of /^(ifb|lxdbr|virbr|br|vnet|tun|tap)[0-9]+/.
VirtualPrefixes ==
    { <<"i", "f", "b">>,
      <<"l", "x", "d", "b", "r">>,
      <<"v", "i", "r", "b", "r">>,
      <<"b", "r">>,
      <<"v", "n", "e", "t">>,
      <<"t", "u", "n">>,
      <<"t", "a", "p">> }

\* iface.match(/^(ifb|lxdbr|virbr|br|vnet|tun|tap)[0-9]+/) is not null.
MatchesVirtual(iface) ==
    \E p \in VirtualPrefixes :
        /\ Len(iface) > Len(p)
        /\ SubSeq(iface, 1, Len(p)) = p
        /\ IsDigit(iface[Len(p) + 1])

(***************************************************************************)
(* The counter sources.  A source is [ok, lines]: ok = FALSE is a read     *)
(* that throws (load_contents fails); lines are the split lines of the     *)
(* file.                                                                   *)
(***************************************************************************)
FailedRead == [ok |-> FALSE, lines |-> <<>>]

\* '' splits to a single empty token: the line after the final newline.
BlankLine == << <<>> >>

NetHeader1 == << <<"I", "n", "t", "e", "r">>, <<"R", "e", "c", "e", "i", "v", "e">>, <<"T", "r", "a", "n", "s", "m", "i", "t">> >>

NetHeader2 ==
    << <<"f", "a", "c", "e">>,
       <<"b", "y", "t", "e", "s">>,
       <<"p", "a", "c", "k", "e", "t", "s">>,
       <<"e", "r", "r", "s">>,
       <<"d", "r", "o", "p">>,
       <<"f", "i", "f", "o">>,
       <<"f", "r", "a", "m", "e">>,
       <<"c", "o", "m", "p", "r", "e", "s", "s", "e", "d">>,
       <<"m", "u", "l", "t", "i", "c", "a", "s", "t">>,
       <<"b", "y", "t", "e", "s">>,
       <<"p", "a", "c", "k", "e", "t", "s">>,
       <<"e", "r", "r", "s">>,
       <<"d", "r", "o", "p">>,
       <<"f", "i", "f", "o">>,
       <<"c", "o", "l", "l", "s">>,
       <<"c", "a", "r", "r", "i", "e", "r">>,
       <<"c", "o", "m", "p", "r", "e", "s", "s", "e", "d">> >>

\* One interface line of /proc/net/dev: name, 8 receive fields, 8 transmit fields.
IfaceLine(name, rx, tx) ==
    <<name, Digits(rx)>> \o [i \in 1..7 |-> <<"0">>] \o <<Digits(tx)>> \o [i \in 1..7 |-> <<"0">>]

\* /proc/net/dev with lo, eth0, a bridge interface br0 and bridge0.
NetTable(rx, tx, brx) ==
    << NetHeader1, NetHeader2, IfaceLine(W_lo, 700, 700), IfaceLine(W_eth0, rx, tx),
       IfaceLine(W_br0, 900, 900), IfaceLine(W_bridge0, brx, 0), BlankLine >>

\* The (eth0 rx, eth0 tx, bridge0 rx) byte counters the tables are built from.
NetCounters ==
    { <<1000000, 2000, 0>>, <<1000000, 3000, 50000>> }

NetSources ==
    {FailedRead, [ok |-> TRUE, lines |-> <<BlankLine>>]}
        \cup {[ok |-> TRUE, lines |-> NetTable(c[1], c[2], c[3])] : c \in NetCounters}

\* The first line of /proc/stat: cpu user nice system idle iowait irq softirq.
CpuLine(user, nice, sys, idle) ==
    <<W_cpu, Digits(user), Digits(nice), Digits(sys), Digits(idle), <<"0">>, <<"0">>, <<"0">> >>

\* The second tuple has the total of the first and ten more used ticks.
CpuTicks == { <<100, 10, 40, 850>>, <<110, 10, 40, 840>>, <<200, 20, 80, 1200>> }

CpuSources ==
    {FailedRead,
     [ok |-> TRUE, lines |-> << <<W_cpu0, <<"1">>, <<"2">>, <<"3">>, <<"4">> >> >>],
     [ok |-> TRUE, lines |-> << <<W_cpu, <<"1">>, <<"2">> >> >>],
     [ok |-> TRUE, lines |-> << <<W_cpu, <<"x">>, <<"2">>, <<"3">>, <<"4">> >> >>]}
        \cup {[ok |-> TRUE, lines |-> << CpuLine(t[1], t[2], t[3], t[4]) >>] : t \in CpuTicks}

MemLine(key, kb) == <<key, Digits(kb), W_kB>>

\* A failed read and a full table.
MemSources ==
    {FailedRead,
     [ok |-> TRUE, lines |-> << MemLine(W_MemTotal, 8000), MemLine(W_MemAvailable, 6000),
                                MemLine(W_SwapTotal, 1000), MemLine(W_SwapFree, 500), BlankLine >>]}

\* A table whose MemTotal is not a number and that has no SwapTotal line.
OddMemSources ==
    {[ok |-> TRUE, lines |-> << <<W_MemTotal, <<"x">>, W_kB>>, MemLine(W_MemAvailable, 6000),
                                MemLine(W_SwapFree, 500), BlankLine >>]}

(***************************************************************************)
(* The readers and the estimator (module-level functions of the source).   *)
(***************************************************************************)
\* The loop over contentLines: the sums of fields[1] and fields[9] over the
\* lines that are not skipped.
RECURSIVE SumLines(_, _, _, _)
SumLines(lines, i, totalDownBytes, totalUpBytes) ==
    IF i > Len(lines) THEN [down |-> totalDownBytes, up |-> totalUpBytes]
    ELSE LET fields == lines[i]
             iface  == Field(fields, 0)
             down   == parseInt(Field(fields, 1))
             up     == parseInt(Field(fields, 9))
         IN  IF \/ Len(fields) <= 2
                \/ iface = W_lo
                \/ MatchesVirtual(iface)
                \/ IsNaN(down)
                \/ IsNaN(up)
             THEN SumLines(lines, i + 1, totalDownBytes, totalUpBytes)
             ELSE SumLines(lines, i + 1, totalDownBytes + down.n, totalUpBytes + up.n)

\* The part of getCurrentNetSpeed up to the end of the loop, on source src:
\* whether the read succeeded, and the totals summed.
ReadNet(src) ==
    IF ~src.ok THEN [read |-> "fail", down |-> 0, up |-> 0]
    ELSE LET t == SumLines(src.lines, 1, 0, 0)
         IN  [read |-> "ok", down |-> t.down, up |-> t.up]

\* What the network source may yield at a read.
NetReadings == {ReadNet(src) : src \in NetSources}

\* NetRate without the test of the previous total against 0.
NetRate_NoWarmUp(total, lastTotal, refreshInterval) ==
    JDiv(Num(total - lastTotal), Num(refreshInterval))

\* One direction of the rate computation: the rate returned for it.
NetRate(total, lastTotal, refreshInterval) ==
    IF lastTotal # 0 THEN JDiv(Num(total - lastTotal), Num(refreshInterval)) ELSE Num(0)

\* getCurrentNetSpeed(refreshInterval) on the reading r, from the previous
\* totals: the netSpeed returned and the previous totals it leaves.
getCurrentNetSpeed(r, refreshInterval, lastDown, lastUp) ==
    IF r.read = "fail"
    THEN [down |-> Num(0), up |-> Num(0), lastDown |-> lastDown, lastUp |-> lastUp]
    ELSE [down |-> NetRate(r.down, lastDown, refreshInterval),
          up |-> NetRate(r.up, lastUp, refreshInterval),
          lastDown |-> r.down, lastUp |-> r.up]

\* The part of getCurrentCPUUsage up to `total`, on source src: whether the
\* first line passed the guard ("skip" when it did not), and used and total.
ReadCpu(src) ==
    IF ~src.ok THEN [read |-> "fail", used |-> Num(0), total |-> Num(0)]
    ELSE LET fields == src.lines[1]
             user   == parseInt(Field(fields, 1))
             nice   == parseInt(Field(fields, 2))
             sys    == parseInt(Field(fields, 3))
             idle   == parseInt(Field(fields, 4))
             used   == JAdd(JAdd(user, nice), sys)
         IN  IF Field(fields, 0) = W_cpu /\ Len(fields) >= 5
             THEN [read |-> "ok", used |-> used, total |-> JAdd(used, idle)]
             ELSE [read |-> "skip", used |-> Num(0), total |-> Num(0)]

\* What the CPU source may yield at a read.
CpuReadings == {ReadCpu(src) : src \in CpuSources}

\* CpuUsage with the operands of the division exchanged.
CpuUsage_Inverted(used, total, lastUsed, lastTotal) ==
    IF JStrictNe(JSub(total, lastTotal), Num(0))
    THEN JDiv(JSub(total, lastTotal), JSub(used, lastUsed))
    ELSE Num(0)

\* The usage computed from used and total against the previous values.
CpuUsage(used, total, lastUsed, lastTotal) ==
    IF JStrictNe(JSub(total, lastTotal), Num(0))
    THEN JDiv(JSub(used, lastUsed), JSub(total, lastTotal))
    ELSE Num(0)

\* getCurrentCPUUsage with the two assignments moved into the `if` of the
\* division.
getCurrentCPUUsage_StaleOnZeroDelta(r, lastUsed, lastTotal) ==
    IF r.read = "ok" /\ JStrictNe(JSub(r.total, lastTotal), Num(0))
    THEN [usage |-> CpuUsage(r.used, r.total, lastUsed, lastTotal),
          lastUsed |-> r.used, lastTotal |-> r.total]
    ELSE [usage |-> Num(0), lastUsed |-> lastUsed, lastTotal |-> lastTotal]

\* getCurrentCPUUsage() on the reading r, from the previous used/total ticks.
getCurrentCPUUsage(r, lastUsed, lastTotal) ==
    IF r.read = "ok"
    THEN [usage |-> CpuUsage(r.used, r.total, lastUsed, lastTotal),
          lastUsed |-> r.used, lastTotal |-> r.total]
    ELSE [usage |-> Num(0), lastUsed |-> lastUsed, lastTotal |-> lastTotal]

\* The mem object of getMemoryInfo before any line is read.
NoMem == [total |-> Num(0), avail |-> Num(0), swTotal |-> Num(0), swFree |-> Num(0)]

\* The loop over the lines of /proc/meminfo.
RECURSIVE MemLines(_, _, _)
MemLines(lines, i, mem) ==
    IF i > Len(lines) THEN mem
    ELSE LET f == lines[i]
             v == parseInt(Field(f, 1))
             k == Field(f, 0)
         IN  IF Len(f) < 2 THEN MemLines(lines, i + 1, mem)
             ELSE MemLines(lines, i + 1,
                      IF k = W_MemTotal THEN [mem EXCEPT !.total = v]
                      ELSE IF k = W_MemAvailable THEN [mem EXCEPT !.avail = v]
                      ELSE IF k = W_SwapTotal THEN [mem EXCEPT !.swTotal = v]
                      ELSE IF k = W_SwapFree THEN [mem EXCEPT !.swFree = v]
                      ELSE mem)

\* getMemoryInfo() reading src, and whether the read succeeded.
getMemoryInfo(src) ==
    IF ~src.ok THEN [read |-> "fail", mem |-> NoMem]
    ELSE [read |-> "ok", mem |-> MemLines(src.lines, 1, NoMem)]

\* What the memory source may yield at a read.
MemReadings == {getMemoryInfo(src) : src \in MemSources}

\* What it yields when the table is an odd one.
OddMemReadings == {getMemoryInfo(src) : src \in OddMemSources}

(***************************************************************************)
(* State.                                                                  *)
(***************************************************************************)
VARIABLES
    lastTotalNetDownBytes,  \* module-level estimator state
    lastTotalNetUpBytes,
    lastCPUUsed,
    lastCPUTotal,
    indicator,              \* this._indicator is an object (FALSE: null/undefined)
    prefs,                  \* this._prefs is an object (FALSE: null/undefined)
    timeout,                \* this._timeout: a source id, or 0 for null/undefined
    refresh_interval,       \* this._refresh_interval, or -1 for undefined
    gsettings,              \* the values stored in the settings schema
    sources,                \* GLib's registered timeout sources: [id, interval, since]
    connected,              \* the handlers connected by enable() are still connected
    running,                \* enable() was called and disable() was not yet
    sinceNetStored,         \* seconds since the previous network totals were stored
    netSampled,             \* a network read succeeded since enable()
    cpuSampled,             \* a CPU sample was parsed since enable()
    call,                   \* what the handler that ran last did and returned
    probe                   \* a module-level function under test: its input and result

estimator == <<lastTotalNetDownBytes, lastTotalNetUpBytes, lastCPUUsed, lastCPUTotal>>

object == <<indicator, prefs, timeout, refresh_interval>>

vars == <<lastTotalNetDownBytes, lastTotalNetUpBytes, lastCPUUsed, lastCPUTotal,
          indicator, prefs, timeout, refresh_interval, gsettings, sources, connected,
          running, sinceNetStored, netSampled, cpuSampled, call, probe>>

\* No function is under test.
NoProbe == [fn |-> "none", arg |-> <<>>, out |-> <<>>, done |-> FALSE]

\* The values of the four `let` declarations at module load.
ModuleLoad == <<0, 0, Num(0), Num(0)>>

\* The boolean keys of the schema that _refresh reads.
FlagKeys ==
    {"IS_CPU_USAGE_ENABLE", "IS_MEMORY_USAGE_ENABLE", "IS_SWAP_USAGE_ENABLE",
     "IS_DOWNLOAD_SPEED_ENABLE", "IS_UPLOAD_SPEED_ENABLE"}

\* The values REFRESH_INTERVAL may hold.
Intervals == 1..MaxInterval

\* The degenerate value of REFRESH_INTERVAL.
ZeroInterval == {0}

\* The record of a handler call that did nothing observable.
NoCall(op) ==
    [op |-> op, ret |-> "none", threw |-> FALSE, styled |-> FALSE,
     mem |-> "none", cpu |-> "none", net |-> "none", memInfo |-> NoMem,
     usage |-> Num(0), down |-> Num(0), up |-> Num(0),
     totalDown |-> 0, totalUp |-> 0, used |-> Num(0), total |-> Num(0),
     elapsed |-> 0, interval |-> 0, prev |-> ModuleLoad,
     netFirst |-> FALSE, cpuFirst |-> FALSE,
     set |-> FALSE, items |-> <<>>]

\* No handler is running: the main loop has control.
Idle == NoCall("idle")

\* The extension loaded and not enabled, the settings as installed: every
\* metric shown, an interval of one second.
Loaded ==
    /\ lastTotalNetDownBytes = ModuleLoad[1]
    /\ lastTotalNetUpBytes = ModuleLoad[2]
    /\ lastCPUUsed = ModuleLoad[3]
    /\ lastCPUTotal = ModuleLoad[4]
    /\ indicator = FALSE
    /\ prefs = FALSE
    /\ timeout = 0
    /\ refresh_interval = -1
    /\ gsettings = [k \in FlagKeys |-> TRUE] @@ [REFRESH_INTERVAL |-> 1]
    /\ sources = {}
    /\ connected = FALSE
    /\ running = FALSE
    /\ sinceNetStored = 0
    /\ netSampled = FALSE
    /\ cpuSampled = FALSE
    /\ call = Idle

Init == Loaded /\ probe = NoProbe

(***************************************************************************)
(* The methods of SSMExtension.                                            *)
(***************************************************************************)
\* GLib.source_remove(this._timeout) when this._timeout is set.
SourceRemove(S, id) == IF id # 0 THEN {s \in S : s.id # id} ELSE S

\* The id GLib gives a new source: one no registered source has.
NewSourceId(S, old) == CHOOSE i \in 1..(Cardinality(S) + 2) : i # old /\ \A s \in S : s.id # i

\* SetupSources without the removal of the old timer.
SetupSources_KeepsOld(S, old, id, interval) ==
    S \cup {[id |-> id, interval |-> interval, since |-> 0]}

\* The sources after _setupTimer has removed the old timer and added a new one.
SetupSources(S, old, id, interval) ==
    SourceRemove(S, old) \cup {[id |-> id, interval |-> interval, since |-> 0]}

\* _setupTimer() with the settings g: throws at this._prefs.REFRESH_INTERVAL when this._prefs is null.
_setupTimer(base, g) ==
    IF ~prefs
    THEN /\ sources' = SourceRemove(sources, timeout)
         /\ call' = [base EXCEPT !.threw = TRUE]
         /\ UNCHANGED <<timeout, refresh_interval>>
    ELSE LET id == NewSourceId(sources, timeout)
         IN  /\ refresh_interval' = g.REFRESH_INTERVAL
             /\ sources' = SetupSources(sources, timeout, id, g.REFRESH_INTERVAL)
             /\ timeout' = id
             /\ call' = base

\* Items as if a failed read of /proc/meminfo ended the tick: nothing is
\* pushed unless MemTotal was read.
Items_NoneWithoutMem(g, c, mem, n) ==
    IF ~JGt(mem.total, Num(0)) THEN <<>>
    ELSE (IF g.IS_CPU_USAGE_ENABLE
          THEN << [text |-> "CPU_USAGE_TEXT", val |-> c.usage] >> ELSE <<>>)
         \o << [text |-> "MEMORY_USAGE_TEXT",
                val |-> JDiv(JSub(mem.total, mem.avail), mem.total)] >>
         \o (IF g.IS_DOWNLOAD_SPEED_ENABLE
             THEN << [text |-> "DOWNLOAD_SPEED_TEXT", val |-> n.down] >> ELSE <<>>)
         \o (IF g.IS_UPLOAD_SPEED_ENABLE
             THEN << [text |-> "UPLOAD_SPEED_TEXT", val |-> n.up] >> ELSE <<>>)

\* Items without the tests of mem.total and mem.swTotal.
Items_NoTotalGuard(g, c, mem, n) ==
    (IF g.IS_CPU_USAGE_ENABLE
     THEN << [text |-> "CPU_USAGE_TEXT", val |-> c.usage] >> ELSE <<>>)
    \o (IF g.IS_MEMORY_USAGE_ENABLE
        THEN << [text |-> "MEMORY_USAGE_TEXT",
                 val |-> JDiv(JSub(mem.total, mem.avail), mem.total)] >> ELSE <<>>)
    \o (IF g.IS_SWAP_USAGE_ENABLE
        THEN << [text |-> "SWAP_USAGE_TEXT",
                 val |-> JDiv(JSub(mem.swTotal, mem.swFree), mem.swTotal)] >> ELSE <<>>)
    \o (IF g.IS_DOWNLOAD_SPEED_ENABLE
        THEN << [text |-> "DOWNLOAD_SPEED_TEXT", val |-> n.down] >> ELSE <<>>)
    \o (IF g.IS_UPLOAD_SPEED_ENABLE
        THEN << [text |-> "UPLOAD_SPEED_TEXT", val |-> n.up] >> ELSE <<>>)

\* The fragments of one _refresh, in the order they are pushed.
Items(g, c, mem, n) ==
    (IF g.IS_CPU_USAGE_ENABLE
     THEN << [text |-> "CPU_USAGE_TEXT", val |-> c.usage] >> ELSE <<>>)
    \o (IF g.IS_MEMORY_USAGE_ENABLE /\ JGt(mem.total, Num(0))
        THEN << [text |-> "MEMORY_USAGE_TEXT",
                 val |-> JDiv(JSub(mem.total, mem.avail), mem.total)] >> ELSE <<>>)
    \o (IF g.IS_SWAP_USAGE_ENABLE /\ JGt(mem.swTotal, Num(0))
        THEN << [text |-> "SWAP_USAGE_TEXT",
                 val |-> JDiv(JSub(mem.swTotal, mem.swFree), mem.swTotal)] >> ELSE <<>>)
    \o (IF g.IS_DOWNLOAD_SPEED_ENABLE
        THEN << [text |-> "DOWNLOAD_SPEED_TEXT", val |-> n.down] >> ELSE <<>>)
    \o (IF g.IS_UPLOAD_SPEED_ENABLE
        THEN << [text |-> "UPLOAD_SPEED_TEXT", val |-> n.up] >> ELSE <<>>)

\* CpuEnabled as if getCurrentCPUUsage were called ahead of the test of the
\* switch, the way getMemoryInfo is.
CpuEnabled_Always(g) == TRUE

\* The condition under which _refresh calls getCurrentCPUUsage.
CpuEnabled(g) == g.IS_CPU_USAGE_ENABLE

\* The condition under which _refresh calls getCurrentNetSpeed.
NetEnabled(g) == g.IS_DOWNLOAD_SPEED_ENABLE \/ g.IS_UPLOAD_SPEED_ENABLE

\* The guard of _refresh never taken.
SinkAbsent_Never == FALSE

\* The guard of _refresh: the indicator is absent.
SinkAbsent == ~indicator

\* _refresh() with the settings g, on the readings of the three sources; base
\* records the caller.
_refresh(base, g, m, cr, nr) ==
    IF SinkAbsent
    THEN /\ call' = [base EXCEPT !.ret = "SOURCE_REMOVE"]
         /\ UNCHANGED <<estimator, sinceNetStored, netSampled, cpuSampled>>
    ELSE LET cpuOn == CpuEnabled(g)
             netOn == NetEnabled(g)
             c     == getCurrentCPUUsage(cr, lastCPUUsed, lastCPUTotal)
             n     == getCurrentNetSpeed(nr, refresh_interval,
                                         lastTotalNetDownBytes, lastTotalNetUpBytes)
         IN  /\ lastCPUUsed' = IF cpuOn THEN c.lastUsed ELSE lastCPUUsed
             /\ lastCPUTotal' = IF cpuOn THEN c.lastTotal ELSE lastCPUTotal
             /\ lastTotalNetDownBytes' = IF netOn THEN n.lastDown ELSE lastTotalNetDownBytes
             /\ lastTotalNetUpBytes' = IF netOn THEN n.lastUp ELSE lastTotalNetUpBytes
             /\ sinceNetStored' = IF netOn /\ nr.read = "ok" THEN 0 ELSE sinceNetStored
             /\ netSampled' = (netSampled \/ (netOn /\ nr.read = "ok"))
             /\ cpuSampled' = (cpuSampled \/ (cpuOn /\ cr.read = "ok"))
             /\ call' = [base EXCEPT
                    !.ret = "SOURCE_CONTINUE",
                    !.mem = m.read,
                    !.memInfo = m.mem,
                    !.cpu = IF cpuOn THEN cr.read ELSE "none",
                    !.net = IF netOn THEN nr.read ELSE "none",
                    !.usage = IF cpuOn THEN c.usage ELSE Num(0),
                    !.used = IF cpuOn THEN cr.used ELSE Num(0),
                    !.total = IF cpuOn THEN cr.total ELSE Num(0),
                    !.down = IF netOn THEN n.down ELSE Num(0),
                    !.up = IF netOn THEN n.up ELSE Num(0),
                    !.totalDown = IF netOn THEN nr.down ELSE 0,
                    !.totalUp = IF netOn THEN nr.up ELSE 0,
                    !.elapsed = IF netOn THEN sinceNetStored ELSE 0,
                    !.interval = IF netOn THEN refresh_interval ELSE 0,
                    !.prev = <<IF netOn THEN lastTotalNetDownBytes ELSE 0,
                               IF netOn THEN lastTotalNetUpBytes ELSE 0,
                               IF cpuOn THEN lastCPUUsed ELSE Num(0),
                               IF cpuOn THEN lastCPUTotal ELSE Num(0)>>,
                    !.netFirst = netOn /\ ~netSampled,
                    !.cpuFirst = cpuOn /\ ~cpuSampled,
                    !.set = TRUE,
                    !.items = Items(g, c, m.mem, n)]

\* The readings a _refresh may get: a source it does not read is not drawn.
CpuReads(g) == IF CpuEnabled(g) THEN CpuReadings ELSE {ReadCpu(FailedRead)}

NetReads(g) ==
    IF NetEnabled(g)
    THEN NetReadings ELSE {ReadNet(FailedRead)}

\* _updateStyles() then _refresh(): the handler of every key but REFRESH_INTERVAL.
\* this._indicator.updateStyle throws when this._indicator is null.
keyHandler(base, g, m, cr, nr) ==
    IF ~indicator
    THEN /\ call' = [base EXCEPT !.threw = TRUE]
         /\ UNCHANGED <<estimator, sinceNetStored, netSampled, cpuSampled>>
    ELSE _refresh([base EXCEPT !.styled = TRUE], g, m, cr, nr)

\* enable() without the reset of the two CPU fields.
EnableReset_KeepsCpu == <<0, 0, lastCPUUsed, lastCPUTotal>>

\* The estimator after the four assignments that open enable().
EnableReset == <<0, 0, Num(0), Num(0)>>

\* enable(): the shell calls it only on a disabled extension.
Enable ==
    /\ call = Idle
    /\ ~running
    /\ running' = TRUE
    /\ lastTotalNetDownBytes' = EnableReset[1]
    /\ lastTotalNetUpBytes' = EnableReset[2]
    /\ lastCPUUsed' = EnableReset[3]
    /\ lastCPUTotal' = EnableReset[4]
    /\ prefs' = TRUE
    /\ indicator' = TRUE
    /\ connected' = TRUE
    /\ LET id == NewSourceId(sources, timeout)
       IN  /\ refresh_interval' = gsettings.REFRESH_INTERVAL
           /\ sources' = SetupSources(sources, timeout, id, gsettings.REFRESH_INTERVAL)
           /\ timeout' = id
    /\ call' = [NoCall("enable") EXCEPT !.styled = TRUE, !.prev = estimator]
    /\ sinceNetStored' = 0
    /\ netSampled' = FALSE
    /\ cpuSampled' = FALSE
    /\ UNCHANGED gsettings
    /\ UNCHANGED probe

\* The sources after disable().
DisableSources(S, id) == SourceRemove(S, id)

\* disable(): the handlers connected in enable() are not disconnected.
Disable ==
    /\ call = Idle
    /\ running
    /\ running' = FALSE
    /\ sources' = DisableSources(sources, timeout)
    /\ timeout' = 0
    /\ indicator' = FALSE
    /\ prefs' = FALSE
    /\ call' = NoCall("disable")
    /\ UNCHANGED <<estimator, refresh_interval, gsettings, connected, sinceNetStored,
                   netSampled, cpuSampled>>
    /\ UNCHANGED probe

\* The sources after the callback of source s returned ret.
Dispatched(S, s, ret) ==
    IF ret = "SOURCE_CONTINUE"
    THEN (S \ {s}) \cup {[s EXCEPT !.since = 0]}
    ELSE S \ {s}

\* A registered timeout source is due: GLib calls () => this._refresh(), which
\* gets one of the readings M from /proc/meminfo.
Tick(M) ==
    /\ call = Idle
    /\ \E s \in sources :
        /\ s.since >= s.interval
        /\ \E m \in M, cr \in CpuReads(gsettings), nr \in NetReads(gsettings) :
               _refresh(NoCall("tick"), gsettings, m, cr, nr)
        /\ sources' = Dispatched(sources, s, call'.ret)
    /\ UNCHANGED <<object, gsettings, connected, running>>
    /\ UNCHANGED probe

TimerFires == Tick(MemReadings)

\* The timer fires while /proc/meminfo is an odd table.
OddTick == Tick(OddMemReadings)

\* Key k, one of those whose handler is _updateStyles(); _refresh(), changes:
\* a flag is toggled, or a style or text key (k = "OTHER") gets a new value.
\* The handler runs when the handlers are connected.
KeyChanged(k) ==
    /\ call = Idle
    /\ LET g == IF k = "OTHER" THEN gsettings ELSE [gsettings EXCEPT ![k] = ~@]
       IN  /\ gsettings' = g
           /\ IF connected
              THEN \E m \in MemReadings, cr \in CpuReads(g), nr \in NetReads(g) :
                       keyHandler(NoCall("changed"), g, m, cr, nr)
              ELSE /\ call' = Idle
                   /\ UNCHANGED <<estimator, sinceNetStored, netSampled, cpuSampled>>
    /\ UNCHANGED <<object, sources, connected, running>>
    /\ UNCHANGED probe

\* REFRESH_INTERVAL changes to a value of V: its handler is _setupTimer().
IntervalChanged(V) ==
    /\ call = Idle
    /\ \E v \in V \ {gsettings.REFRESH_INTERVAL} :
        LET g == [gsettings EXCEPT !.REFRESH_INTERVAL = v]
        IN  /\ gsettings' = g
            /\ IF connected
               THEN _setupTimer(NoCall("intervalChanged"), g)
               ELSE /\ call' = Idle
                    /\ UNCHANGED <<timeout, refresh_interval, sources>>
    /\ UNCHANGED <<estimator, indicator, prefs, connected, running,
                   sinceNetStored, netSampled, cpuSampled>>
    /\ UNCHANGED probe

\* The settings object released by disable() is collected before the next
\* change: its handlers are gone.
Finalize ==
    /\ call = Idle
    /\ connected
    /\ ~prefs
    /\ connected' = FALSE
    /\ UNCHANGED <<estimator, object, gsettings, sources, running,
                   sinceNetStored, netSampled, cpuSampled, call>>
    /\ UNCHANGED probe

\* One second passes while the extension runs and no timer is overdue.
Advance ==
    /\ call = Idle
    /\ running
    /\ sinceNetStored < MaxElapsed
    /\ \A s \in sources : s.since < s.interval \/ s.interval = 0
    /\ sources' = {[s EXCEPT !.since = IF s.interval = 0 THEN 0 ELSE @ + 1] : s \in sources}
    /\ sinceNetStored' = sinceNetStored + 1
    /\ UNCHANGED <<estimator, object, gsettings, connected, running, netSampled,
                   cpuSampled, call>>
    /\ UNCHANGED probe

\* The handler returns: the main loop has control again.
Return ==
    /\ call # Idle
    /\ call' = Idle
    /\ UNCHANGED <<estimator, object, gsettings, sources, connected, running,
                   sinceNetStored, netSampled, cpuSampled>>
    /\ UNCHANGED probe

\* The timer callback called with the indicator gone.  GLib dispatches no
\* removed source, so no behaviour of Spec contains this step; it is the call
\* the first line of _refresh is written for.
LateTick ==
    /\ call = Idle
    /\ ~indicator
    /\ \E m \in MemReadings, cr \in CpuReads(gsettings), nr \in NetReads(gsettings) :
           _refresh(NoCall("lateTick"), gsettings, m, cr, nr)
    /\ UNCHANGED <<object, gsettings, sources, connected, running>>
    /\ UNCHANGED probe

\* The keys changed in the behaviours of Spec.
CoreKeys ==
    {"IS_CPU_USAGE_ENABLE", "IS_DOWNLOAD_SPEED_ENABLE", "IS_UPLOAD_SPEED_ENABLE", "OTHER"}

Next ==
    \/ Enable
    \/ Disable
    \/ TimerFires
    \/ \E k \in CoreKeys : KeyChanged(k)
    \/ IntervalChanged(Intervals)
    \/ Finalize
    \/ Advance
    \/ Return

Spec == Init /\ [][Next]_vars

\* The switches of the memory and the swap fragment, and the style and text keys.
MemKeys == {"IS_MEMORY_USAGE_ENABLE", "IS_SWAP_USAGE_ENABLE", "OTHER"}

\* The extension with the memory and the swap switch operated and odd
\* memory tables read: the CPU and network switches and the interval keep
\* their installed values.
NextMem ==
    \/ Enable
    \/ Disable
    \/ TimerFires
    \/ OddTick
    \/ \E k \in MemKeys : KeyChanged(k)
    \/ Finalize
    \/ Advance
    \/ Return

SpecMem == Init /\ [][NextMem]_vars

\* Spec with the late call of the timer callback added.
SpecLate == Init /\ [][Next \/ LateTick]_vars

\* Spec with a refresh interval of zero seconds allowed.
SpecDegenerate == Init /\ [][Next \/ IntervalChanged(ZeroInterval)]_vars

(***************************************************************************)
(* The formatter.  A string is the sequence of its characters.             *)
(***************************************************************************)
netSpeedUnits == <<"B", "K", "M", "G", "T", "P", "E", "Z", "Y">>

RECURSIVE Pow10(_)
Pow10(e) == IF e = 0 THEN 1 ELSE 10 * Pow10(e - 1)

\* The digits of k, with zeros in front up to width w.
ZeroPad(k, w) ==
    LET t == Digits(k) IN [i \in 1..(w - Len(t)) |-> "0"] \o t

\* x.toFixed(d), for d in 0..2 and |x| < 1e21: the decimal with d fraction
\* digits nearest to x, the larger one when two are equally near.
toFixed(x, d) ==
    IF IsNaN(x) THEN <<"N", "a", "N">>
    ELSE IF ~IsFinite(x)
         THEN (IF x.n < 0 THEN <<"-">> ELSE <<>>) \o <<"I", "n", "f", "i", "n", "i", "t", "y">>
    ELSE LET n == (2 * Abs(x.n) * Pow10(d) + x.d) \div (2 * x.d)
         IN  (IF x.n < 0 THEN <<"-">> ELSE <<>>)
                 \o Digits(n \div Pow10(d))
                 \o (IF d = 0 THEN <<>> ELSE <<".">> \o ZeroPad(n % Pow10(d), d))

\* padStart that pads nothing.
padStart_None(t, w) == t

\* t.padStart(w): t with blanks in front up to width w.
padStart(t, w) == [i \in 1..(w - Len(t)) |-> " "] \o t

\* The while loop of formatNetSpeed: the amount scaled and the unit index.
RECURSIVE Scale(_, _)
Scale(amount, ui) ==
    IF JGe(amount, Num(1000)) /\ ui < Len(netSpeedUnits) - 1
    THEN Scale(JDiv(amount, Num(1000)), ui + 1)
    ELSE [amount |-> amount, ui |-> ui]

\* The number of decimals formatNetSpeed asks of toFixed.
Decimals(amount) ==
    IF JGe(amount, Num(100)) \/ JGt(Norm(1, 100), amount) THEN 0
    ELSE IF JGe(amount, Num(10)) THEN 1 ELSE 2

formatNetSpeed(amount, full) ==
    LET sc == Scale(amount, 0)
    IN  padStart(toFixed(sc.amount, Decimals(sc.amount)), 4)
            \o <<" ", netSpeedUnits[sc.ui + 1]>>
            \o (IF full THEN <<"/", "s">> ELSE <<>>)

\* The rates formatted: whole numbers of bytes per second of one to ten
\* digits, and the halves and the small rates a long interval gives.
FormatAmounts ==
    {Num(m * Pow10(e)) : m \in {1, 5, 15, 42, 999, 9996}, e \in 0..MaxExp}
        \cup {Num(0), Num(1500000), Norm(1, 2), Norm(1999, 2), Norm(1, 200)}

InitFormat ==
    /\ Loaded
    /\ probe \in {[fn |-> "formatNetSpeed", arg |-> <<a, full>>, out |-> <<>>, done |-> FALSE] :
                     a \in FormatAmounts, full \in BOOLEAN}

\* formatNetSpeed(amount, full) is called and returns.
Format ==
    /\ probe.fn = "formatNetSpeed"
    /\ ~probe.done
    /\ probe' = [probe EXCEPT !.out = formatNetSpeed(probe.arg[1], probe.arg[2]),
                              !.done = TRUE]
    /\ UNCHANGED <<estimator, object, gsettings, sources, connected, running,
                   sinceNetStored, netSampled, cpuSampled, call>>

SpecFormat == InitFormat /\ [][Format]_vars

(***************************************************************************)
(* The reader of /proc/net/dev applied to tables given as text.            *)
(***************************************************************************)
\* A name with a VLAN suffix and a bridge name with a hyphen.
N_eth0_100 == <<"e", "t", "h", "0", ".", "1", "0", "0">>

N_br_lan == <<"b", "r", "-", "l", "a", "n">>

\* The interfaces the tables are drawn from, each with its own received and
\* transmitted byte counts: a sum tells which interfaces it counts.
Ifaces ==
    << [name |-> W_lo, rx |-> 1, tx |-> 1000],
       [name |-> W_eth0, rx |-> 2, tx |-> 2000],
       [name |-> W_br0, rx |-> 4, tx |-> 4000],
       [name |-> W_bridge0, rx |-> 8, tx |-> 8000],
       [name |-> <<"v", "i", "r", "b", "r", "1">>, rx |-> 16, tx |-> 16000],
       [name |-> <<"t", "u", "n">>, rx |-> 32, tx |-> 32000],
       [name |-> <<"t", "a", "p", "1", "2">>, rx |-> 64, tx |-> 64000],
       [name |-> N_eth0_100, rx |-> 128, tx |-> 128000],
       [name |-> N_br_lan, rx |-> 256, tx |-> 256000] >>

\* The interfaces of Ifaces with an index in S, in their order.
RECURSIVE Pick(_, _)
Pick(S, i) ==
    IF i > Len(Ifaces) THEN <<>>
    ELSE (IF i \in S THEN <<Ifaces[i]>> ELSE <<>>) \o Pick(S, i + 1)

\* The line of /proc/net/dev for an interface: the name, a colon, the eight
\* receive counters and the eight transmit counters.
IfaceText(f) ==
    <<" ", " ">> \o f.name \o <<":", " ">> \o Digits(f.rx)
        \o <<" ", "0", " ", "0", " ", "0", " ", "0", " ", "0", " ", "0", " ", "0", " ">>
        \o Digits(f.tx)
        \o <<" ", "0", " ", "0", " ", "0", " ", "0", " ", "0", " ", "0", " ", "0">>

\* contentStr.split('\n') of a table listing the interfaces t, each line
\* split to its fields.
TableLines(t) ==
    <<NetHeader1, NetHeader2>> \o [i \in 1..Len(t) |-> Fields(IfaceText(t[i]))] \o <<Fields(<<>>)>>

\* The tables: every selection of the interfaces.
InitNetTable ==
    /\ Loaded
    /\ probe \in {[fn |-> "getCurrentNetSpeed", arg |-> Pick(S, 1), out |-> <<>>, done |-> FALSE] :
                     S \in SUBSET (1..Len(Ifaces))}

\* getCurrentNetSpeed reads the table: the totals it has summed after the loop.
SumTable ==
    /\ probe.fn = "getCurrentNetSpeed"
    /\ ~probe.done
    /\ probe' = [probe EXCEPT
           !.out = ReadNet([ok |-> TRUE, lines |-> TableLines(probe.arg)]),
           !.done = TRUE]
    /\ UNCHANGED <<estimator, object, gsettings, sources, connected, running,
                   sinceNetStored, netSampled, cpuSampled, call>>

SpecNetTable == InitNetTable /\ [][SumTable]_vars

(***************************************************************************)
(* Claims.                                                                 *)
(***************************************************************************)
\* C1: the first successful network sample after enable() reports rate 0 for
\* both directions, whatever the totals read, and stores the totals read as
\* the new previous totals.
C1_FirstNetSampleIsWarmUp ==
    (call.net = "ok" /\ call.netFirst) =>
        /\ call.down = Num(0)
        /\ call.up = Num(0)
        /\ lastTotalNetDownBytes = call.totalDown
        /\ lastTotalNetUpBytes = call.totalUp

\* A first network sample after enable() that read large totals.
C1_Witness ==
    /\ call.net = "ok"
    /\ call.netFirst
    /\ call.totalDown >= 1000000
    /\ call.totalUp > 0

\* C2: the first successful CPU sample after enable() (the first line parsed
\* to numbers) reports usage 0, whatever the ticks read, and stores the used
\* and total ticks read.
C2_FirstCpuSampleIsZero ==
    (call.cpu = "ok" /\ call.cpuFirst /\ IsFinite(call.total)) =>
        /\ call.usage = Num(0)
        /\ lastCPUUsed = call.used
        /\ lastCPUTotal = call.total

\* C3: no network rate returned by getCurrentNetSpeed is negative.
C3_RateNeverNegative ==
    /\ ~JGt(Num(0), call.down)
    /\ ~JGt(Num(0), call.up)

\* C4: a network rate that is not a warm-up rate is the byte delta since the
\* stored previous total divided by the seconds that passed since that total
\* was stored.
C4_RateUsesElapsedTime ==
    (call.net = "ok" /\ call.elapsed > 0) =>
        /\ call.prev[1] # 0 =>
               call.down = JDiv(Num(call.totalDown - call.prev[1]), Num(call.elapsed))
        /\ call.prev[2] # 0 =>
               call.up = JDiv(Num(call.totalUp - call.prev[2]), Num(call.elapsed))

\* C5: from enable() until the first sample, also after ticks and a disable(),
\* the four estimator fields have the values they had at module load.
C5_ReenableIsFirstEver ==
    (running /\ ~netSampled /\ ~cpuSampled) => estimator = ModuleLoad

\* enable() ran on an estimator that earlier ticks had left non-zero.
C5_Witness ==
    /\ call.op = "enable"
    /\ call.prev[1] # 0
    /\ call.prev[4] # Num(0)
    /\ estimator = ModuleLoad

\* C6: exactly one timer is registered while running, none while stopped.
C6_OneTimerWhileRunning ==
    Cardinality(sources) = IF running THEN 1 ELSE 0

\* An interval change while running has replaced the timer.
C6_Witness ==
    /\ call.op = "intervalChanged"
    /\ running
    /\ \E s \in sources : s.id = timeout /\ s.interval = gsettings.REFRESH_INTERVAL

\* C7: a change of the refresh interval while running clears the estimator.
C7_IntervalChangeClearsEstimator ==
    (call.op = "intervalChanged" /\ running) => estimator = ModuleLoad

\* C8: after disable(), a settings change runs none of the handlers
\* connected in enable().
C8_NoHandlerAfterDisable ==
    call.op \in {"changed", "intervalChanged"} => running

\* C9: with a refresh interval <= 0 the network rates are 0 and the totals
\* are stored; a CPU sample whose total-tick delta is 0 reports usage 0.
C9_DegenerateIntervalYieldsZero ==
    /\ (call.net = "ok" /\ call.interval <= 0) =>
           /\ call.down = Num(0)
           /\ call.up = Num(0)
           /\ lastTotalNetDownBytes = call.totalDown
           /\ lastTotalNetUpBytes = call.totalUp
    /\ (call.cpu = "ok" /\ JSub(call.total, call.prev[4]) = Num(0)) =>
           call.usage = Num(0)

\* C10: _refresh with the indicator absent returns SOURCE_REMOVE, reads no
\* source, leaves the estimator unchanged and sets no text.
C10_AbsentSinkIsNoOp ==
    [][(call = Idle /\ ~indicator /\ call'.op = "lateTick") =>
           /\ call'.ret = "SOURCE_REMOVE"
           /\ call'.mem = "none" /\ call'.cpu = "none" /\ call'.net = "none"
           /\ estimator' = estimator
           /\ ~call'.set]_vars

\* The timer callback has run with the indicator absent.
C10_Witness ==
    /\ call.op = "lateTick"
    /\ ~indicator
    /\ estimator # ModuleLoad

\* The values of the fragments labelled `text` that the last handler pushed.
Fragment(text) == {call.items[i].val : i \in {j \in DOMAIN call.items : call.items[j].text = text}}

\* x is a number of the interval [0, 1].
InUnit(x) == IsFinite(x) /\ ~JGt(Num(0), x) /\ ~JGt(x, Num(1))

\* C11: a _refresh in which the read of one source fails still returns
\* SOURCE_CONTINUE and throws nothing; every source that was read stores its
\* own reading in the estimator and every enabled metric of it has its
\* fragment, computed from that reading, as in a _refresh without the failure.
C11_ReadFailureStaysLocal ==
    (call.set /\ "fail" \in {call.mem, call.cpu, call.net}) =>
        /\ call.ret = "SOURCE_CONTINUE"
        /\ ~call.threw
        /\ call.cpu = "ok" =>
               /\ lastCPUUsed = call.used
               /\ lastCPUTotal = call.total
               /\ Fragment("CPU_USAGE_TEXT")
                      = {CpuUsage(call.used, call.total, call.prev[3], call.prev[4])}
        /\ call.net = "ok" =>
               /\ lastTotalNetDownBytes = call.totalDown
               /\ lastTotalNetUpBytes = call.totalUp
               /\ gsettings.IS_DOWNLOAD_SPEED_ENABLE =>
                      Fragment("DOWNLOAD_SPEED_TEXT")
                          = {NetRate(call.totalDown, call.prev[1], call.interval)}
               /\ gsettings.IS_UPLOAD_SPEED_ENABLE =>
                      Fragment("UPLOAD_SPEED_TEXT")
                          = {NetRate(call.totalUp, call.prev[2], call.interval)}
        /\ (call.mem = "ok" /\ gsettings.IS_MEMORY_USAGE_ENABLE
                /\ JGt(call.memInfo.total, Num(0))) =>
               Fragment("MEMORY_USAGE_TEXT")
                   = {JDiv(JSub(call.memInfo.total, call.memInfo.avail), call.memInfo.total)}
        /\ (call.mem = "ok" /\ gsettings.IS_SWAP_USAGE_ENABLE
                /\ JGt(call.memInfo.swTotal, Num(0))) =>
               Fragment("SWAP_USAGE_TEXT")
                   = {JDiv(JSub(call.memInfo.swTotal, call.memInfo.swFree),
                           call.memInfo.swTotal)}

\* The read of /proc/meminfo failed in a tick that sampled CPU and network
\* against stored previous values.
C11_Witness ==
    /\ call.op = "tick"
    /\ call.mem = "fail"
    /\ call.cpu = "ok"
    /\ call.net = "ok"
    /\ call.prev[1] # 0
    /\ call.prev[4] # Num(0)
    /\ Len(call.items) = 3

\* C15: a _refresh with the CPU switch off reads no CPU source and leaves
\* lastCPUUsed and lastCPUTotal as they were; one with the download and the
\* upload switch off reads no network source and leaves both previous totals;
\* every _refresh with the indicator present reads the memory source.
C15_DisabledSourceUntouched ==
    [][(call = Idle /\ call'.set) =>
           /\ call'.mem # "none"
           /\ ~gsettings'.IS_CPU_USAGE_ENABLE =>
                  /\ call'.cpu = "none"
                  /\ lastCPUUsed' = lastCPUUsed
                  /\ lastCPUTotal' = lastCPUTotal
           /\ (~gsettings'.IS_DOWNLOAD_SPEED_ENABLE /\ ~gsettings'.IS_UPLOAD_SPEED_ENABLE) =>
                  /\ call'.net = "none"
                  /\ lastTotalNetDownBytes' = lastTotalNetDownBytes
                  /\ lastTotalNetUpBytes' = lastTotalNetUpBytes]_vars

\* A tick with the three switches off while the estimator holds samples.
C15_Witness ==
    /\ call.op = "tick"
    /\ call.set
    /\ ~gsettings.IS_CPU_USAGE_ENABLE
    /\ ~gsettings.IS_DOWNLOAD_SPEED_ENABLE
    /\ ~gsettings.IS_UPLOAD_SPEED_ENABLE
    /\ lastCPUTotal # Num(0)
    /\ lastTotalNetDownBytes # 0
    /\ call.mem = "ok"

\* C16 as claimed: a CPU sample whose total equals the previous total reports
\* usage 0 and leaves the previous used and total; every other parsed sample
\* stores its used and total.
C16_ZeroDeltaLeavesPrevious ==
    call.cpu = "ok" =>
        IF JSub(call.total, call.prev[4]) = Num(0)
        THEN /\ call.usage = Num(0)
             /\ lastCPUUsed = call.prev[3]
             /\ lastCPUTotal = call.prev[4]
        ELSE /\ lastCPUUsed = call.used
             /\ lastCPUTotal = call.total

\* C16, amended: a CPU sample whose total equals the previous total reports
\* usage 0; every sample whose first line passes the guard, that one
\* included, stores its used and total as the new previous values.
C16_EverySampleStored ==
    call.cpu = "ok" =>
        /\ lastCPUUsed = call.used
        /\ lastCPUTotal = call.total
        /\ JSub(call.total, call.prev[4]) = Num(0) => call.usage = Num(0)

\* A sample with the previous total and other used ticks was stored.
C16_Witness ==
    /\ call.cpu = "ok"
    /\ JSub(call.total, call.prev[4]) = Num(0)
    /\ call.used # call.prev[3]
    /\ call.usage = Num(0)
    /\ lastCPUUsed = call.used

\* C17: when the first line of /proc/stat does not parse (not 'cpu', fewer
\* than 5 fields, a tick field that is no number), the _refresh pushes no CPU
\* fragment and the previous used and total stay as they were.
C17_MalformedCpuLineIsAbsent ==
    (call.cpu = "skip" \/ (call.cpu = "ok" /\ ~IsFinite(call.total))) =>
        /\ Fragment("CPU_USAGE_TEXT") = {}
        /\ lastCPUUsed = call.prev[3]
        /\ lastCPUTotal = call.prev[4]

\* C18: a CPU usage computed from used and idle ticks that did not decrease
\* against the stored ones is in [0, 1], as is the 0 returned without a
\* sample; a memory or swap ratio pushed is in [0, 1] when the available
\* (free) amount read is at most the total.
C18_RatiosInUnitInterval ==
    /\ (/\ call.cpu = "ok"
        /\ IsFinite(call.total)
        /\ IsFinite(call.prev[4])
        /\ ~JGt(call.prev[3], call.used)
        /\ ~JGt(JSub(call.prev[4], call.prev[3]), JSub(call.total, call.used)))
           => InUnit(call.usage)
    /\ call.cpu \in {"fail", "skip"} => InUnit(call.usage)
    /\ (IsFinite(call.memInfo.avail) /\ ~JGt(call.memInfo.avail, call.memInfo.total))
           => \A v \in Fragment("MEMORY_USAGE_TEXT") : InUnit(v)
    /\ (IsFinite(call.memInfo.swFree) /\ ~JGt(call.memInfo.swFree, call.memInfo.swTotal))
           => \A v \in Fragment("SWAP_USAGE_TEXT") : InUnit(v)

\* A usage strictly between 0 and 1 was computed against a stored sample
\* in a _refresh that pushed a memory and a swap ratio.
C18_Witness ==
    /\ call.cpu = "ok"
    /\ call.prev[4] # Num(0)
    /\ ~JGt(call.prev[3], call.used)
    /\ ~JGt(JSub(call.prev[4], call.prev[3]), JSub(call.total, call.used))
    /\ JGt(call.usage, Num(0))
    /\ JGt(Num(1), call.usage)
    /\ Fragment("MEMORY_USAGE_TEXT") # {}
    /\ Fragment("SWAP_USAGE_TEXT") # {}

\* C12: a _refresh pushes a memory fragment only if the memory switch is on
\* and the MemTotal read is greater than 0, and a swap fragment only if the
\* swap switch is on and the SwapTotal read is greater than 0; no ratio
\* pushed has a total of 0 or one that is no number as its divisor.
C12_RatioOnlyForPositiveTotal ==
    call.set =>
        /\ Fragment("MEMORY_USAGE_TEXT") # {} =>
               /\ gsettings.IS_MEMORY_USAGE_ENABLE
               /\ IsFinite(call.memInfo.total)
               /\ JGt(call.memInfo.total, Num(0))
        /\ Fragment("SWAP_USAGE_TEXT") # {} =>
               /\ gsettings.IS_SWAP_USAGE_ENABLE
               /\ IsFinite(call.memInfo.swTotal)
               /\ JGt(call.memInfo.swTotal, Num(0))

\* With both switches on, a table whose MemTotal is no number and that has
\* no SwapTotal was read, and neither fragment was pushed.
C12_Witness ==
    /\ call.set
    /\ call.mem = "ok"
    /\ gsettings.IS_MEMORY_USAGE_ENABLE
    /\ gsettings.IS_SWAP_USAGE_ENABLE
    /\ IsNaN(call.memInfo.total)
    /\ call.memInfo.swTotal = Num(0)
    /\ Fragment("MEMORY_USAGE_TEXT") = {}
    /\ Fragment("SWAP_USAGE_TEXT") = {}
    /\ Fragment("CPU_USAGE_TEXT") # {}

\* The interface name is excluded as C14 reads the filter: it is 'lo', or one
\* of the prefixes followed by one or more digits.
Excluded(name) ==
    \/ name = W_lo
    \/ \E p \in VirtualPrefixes :
           /\ Len(name) > Len(p)
           /\ SubSeq(name, 1, Len(p)) = p
           /\ \A i \in (Len(p) + 1)..Len(name) : IsDigit(name[i])

\* The sum of the received (dir = "rx") or transmitted (dir = "tx") bytes
\* over the interfaces of t that are not excluded.
RECURSIVE SumNotExcluded(_, _, _)
SumNotExcluded(t, i, dir) ==
    IF i > Len(t) THEN 0
    ELSE (IF Excluded(t[i].name) THEN 0 ELSE IF dir = "rx" THEN t[i].rx ELSE t[i].tx)
         + SumNotExcluded(t, i + 1, dir)

\* C14: the totals getCurrentNetSpeed computes from a table are the sums of
\* the received and the transmitted bytes over the interfaces that are not
\* excluded: none of these is dropped, and no other field is counted.
C14_TotalsAreExactSums ==
    (probe.fn = "getCurrentNetSpeed" /\ probe.done) =>
        /\ probe.out.read = "ok"
        /\ probe.out.down = SumNotExcluded(probe.arg, 1, "rx")
        /\ probe.out.up = SumNotExcluded(probe.arg, 1, "tx")

\* The text formatNetSpeed returned is laid out as C13 says: a numeric part
\* of at least 4 characters, blanks only in front of it and only up to width
\* 4, one blank, a unit symbol, and '/s' exactly when full is set.
Formatted ==
    LET out  == probe.out
        full == probe.arg[2]
        w    == Len(out) - 2 - (IF full THEN 2 ELSE 0)
    IN  /\ w >= 4
        /\ \A i \in 1..w : out[i] = " " => (w = 4 /\ \A j \in 1..i : out[j] = " ")
        /\ out[w] # " "
        /\ out[w + 1] = " "
        /\ \E u \in 1..Len(netSpeedUnits) : out[w + 2] = netSpeedUnits[u]
        /\ full => SubSeq(out, w + 3, w + 4) = <<"/", "s">>

\* The numeric part of the text formatNetSpeed returned.
NumericPart ==
    SubSeq(probe.out, 1, Len(probe.out) - 2 - (IF probe.arg[2] THEN 2 ELSE 0))

\* C13 as claimed: the text is laid out as above, and formatNetSpeed(5000,
\* false) = "5.00 K", formatNetSpeed(999, false) = "999 B" and
\* formatNetSpeed(1500000, true) = "1.50 M/s".
C13_FormatExamples ==
    (probe.fn = "formatNetSpeed" /\ probe.done) =>
        /\ Formatted
        /\ probe.arg = <<Num(5000), FALSE>> => probe.out = <<"5", ".", "0", "0", " ", "K">>
        /\ probe.arg = <<Num(999), FALSE>> => probe.out = <<"9", "9", "9", " ", "B">>
        /\ probe.arg = <<Num(1500000), TRUE>> =>
               probe.out = <<"1", ".", "5", "0", " ", "M", "/", "s">>

\* C13, amended: as claimed, but formatNetSpeed(999, false) = " 999 B", the
\* three digits padded to width 4.
C13_FormatExamplesPadded ==
    (probe.fn = "formatNetSpeed" /\ probe.done) =>
        /\ Formatted
        /\ probe.arg = <<Num(5000), FALSE>> => probe.out = <<"5", ".", "0", "0", " ", "K">>
        /\ probe.arg = <<Num(999), FALSE>> => probe.out = <<" ", "9", "9", "9", " ", "B">>
        /\ probe.arg = <<Num(1500000), TRUE>> =>
               probe.out = <<"1", ".", "5", "0", " ", "M", "/", "s">>

\* formatNetSpeed(999, false) has returned the padded text.
C13_Witness ==
    /\ probe.fn = "formatNetSpeed"
    /\ probe.done
    /\ probe.arg = <<Num(999), FALSE>>
    /\ probe.out = <<" ", "9", "9", "9", " ", "B">>

\* C19: for an amount that is not negative, the numeric part of the text is
\* exactly 4 characters wide and denotes a value below 1000 (it is not made
\* of four digits).
C19_NumericPartIsFourWide ==
    (probe.fn = "formatNetSpeed" /\ probe.done /\ JGe(probe.arg[1], Num(0))) =>
        /\ Len(NumericPart) = 4
        /\ \E i \in 1..4 : ~IsDigit(NumericPart[i])

====
